---- MODULE Spec2Model ----
(***************************************************************************)
(* A model of the VeSync cloud client (src/src/api/VeSync.ts): the         *)
(* module-level AsyncLock, the rate limiter, the retry loop, login with    *)
(* its field and identity fallbacks, the three device operations and the   *)
(* re-login timer of startSession.                                         *)
(*                                                                         *)
(* Every await of the source is a step of its own: a task that is inside   *)
(* delay(), or has a request in flight, sits in a pc value of its own and  *)
(* other tasks may be invoked meanwhile.                                   *)
(*                                                                         *)
(* Time is in milliseconds and kept relative to the present: instead of    *)
(* Date.now() and the stamps this.lastRequest and this.minuteStart the     *)
(* state holds the ages Date.now() - stamp, which is all the source ever   *)
(* computes from them.  An age stops growing at the first value past       *)
(* which no comparison of the source can tell it apart.                    *)
(***************************************************************************)
EXTENDS Integers, Sequences, FiniteSets, TLC

\* ------------------------------------------------------------- bounds

\* How many operations each caller invokes.
MaxCalls == 1
\* How many times the setInterval callback fires.
MaxTicks == 1
\* How many calls of requestWithRetry the vendor answers with 429 in one run.
MaxThrottled == 1

\* ------------------------------------------------- program constants

MinSpacingMs == 1000
WindowMs == 60000
MaxPerMinute == 60
MaxAttempts == 5
LastRetryIndex == 4
BackoffBaseMs == 1000
BackoffCapMs == 60000
JitterMs == 1000
SettleMs == 500
LoginSettleMs == 500
DiscoverySettleMs == 1500
ReloginMs == 1000 * 60 * 55
RequestTimeoutMs == 30000

\* ------------------------------------------------------------- values

None == "none"
Android == "Android"
IOS == "iOS"
AndroidUA == "VeSync/5.6.70 (Android 14; Pixel 7)"
IOSUA == "VeSync/5.6.70 (iOS 17; iPhone)"

Callers == {"c1", "c2"}
TimerTask == "timer"
Tasks == Callers \cup {TimerTask}

\* An operation called on a second VeSync instance of the same process: the
\* two instances share nothing but the module's const lock.
OtherTask == "other"

AllTasks == Tasks \cup {OtherTask}

CallerOps == {"startSession", "getDevices", "getDeviceInfo", "sendCommand"}
LoginOps == {"startSession", "login"}
AuthOps == {"getDevices", "getDeviceInfo", "sendCommand"}

\* What the vendor can answer.  ok: axios resolves (HTTP 2xx); otherwise it
\* rejects with error.response.status = status (0: no response at all, a
\* timeout or a network error).  data: the kind of (error.)response.data.
\* circular: whether JSON.stringify(response) throws on this response.
Rsp(ok, status, data, code, msg, token, accountID, list, circular) ==
  [ok |-> ok, status |-> status, data |-> data, code |-> code, msg |-> msg,
   token |-> token, accountID |-> accountID, list |-> list, circular |-> circular]

Tokens == {"tk1", "tk2"}

LoginAnswers ==
  {Rsp(TRUE, 200, "object", 0, "", tk, "acc1", None, FALSE) : tk \in Tokens}
  \cup {Rsp(TRUE, 200, "object", 0, "", None, "acc1", None, FALSE),
        Rsp(TRUE, 200, "object", 0, "", "tk1", None, None, FALSE),
        Rsp(TRUE, 200, "object", 0, "", "tk1", "", None, FALSE)}

DeviceAnswers ==
  {Rsp(TRUE, 200, "object", 0, "", None, None, l, FALSE) : l \in {None, "empty", "devices"}}

BypassAnswers ==
  {Rsp(TRUE, 200, "object", 0, "", None, None, None, FALSE)}

VendorFailures ==
  {Rsp(TRUE, 200, "object", 1, "err", None, None, None, FALSE)}
  \cup {Rsp(TRUE, 200, None, 0, "", None, None, None, c) : c \in BOOLEAN}

TransportFailures ==
  {Rsp(FALSE, 429, "object", 1, "", None, None, None, FALSE),
   Rsp(FALSE, 400, "object", 1, "", None, None, None, FALSE),
   Rsp(FALSE, 403, "string", 0, "", None, None, None, FALSE),
   Rsp(FALSE, 401, "object", 1, "Forbidden", None, None, None, FALSE),
   Rsp(FALSE, 500, "string", 0, "", None, None, None, FALSE),
   Rsp(FALSE, 0, None, 0, "", None, None, None, FALSE)}

Answers(o) ==
  (IF o \in LoginOps THEN LoginAnswers
   ELSE IF o = "getDevices" THEN DeviceAnswers ELSE BypassAnswers)
  \cup VendorFailures \cup TransportFailures

\* An error that is no axios error (new Error(...), a TypeError): it has no
\* response.
PlainError == Rsp(FALSE, 0, None, 0, "", None, None, None, FALSE)

VARIABLES
  email, password,                  \* constructor arguments
  token, accountId,                 \* this.token, this.accountId
  clientType, userAgent,            \* this.clientType, api.defaults.headers['User-Agent']
  hdrTk, hdrAccountid,              \* api.defaults.headers.tk / .accountid
  sinceRequest,                     \* Date.now() - this.lastRequest, up to MinSpacingMs
  sinceMinute,                      \* Date.now() - this.minuteStart, up to AgeCap
  requestsThisMinute,
  lockHolder, lockQueue,            \* the AsyncLock key 'api-call'
  timerLeft, ticks,                 \* ms until the next tick of setInterval (-1: no timer)
  op, pc, attempt, field, ident, held, calls,
  returned,                         \* the last operation that ended, and its outcome
  rlAgo,                            \* Date.now() - now, now being the local of rateLimit
  reqs,                             \* requests issued by the task's current operation
  rsp,                              \* the answer the task is handling
  wire,                             \* the last request put on the wire
  sinceWire, gap,                   \* ms since that request; ms between the last two
  winAge, winCount,                 \* an observer's 60 s window and the requests in it
  throttled,                        \* calls of requestWithRetry answered with 429 so far
  maxRetries,                       \* 'Max retries reached' has been thrown
  list,                             \* result.list of a device-list response
  purifiers, humidifiers,           \* what getDevices builds from it
  classified,                       \* the three filters have run
  slept,                            \* the last backoff wait of the requestWithRetry call under way
  saw429                            \* a request of the operation under way was answered with 429

cfgVars == <<email, password>>
sessVars == <<token, accountId, clientType, userAgent, hdrTk, hdrAccountid>>
rateVars == <<sinceRequest, sinceMinute, requestsThisMinute>>
lockVars == <<lockHolder, lockQueue>>
timerVars == <<timerLeft, ticks>>
taskVars == <<op, pc, attempt, field, ident, held, returned, calls, rlAgo, reqs, rsp>>
obsVars == <<wire, sinceWire, gap, winAge, winCount, throttled, maxRetries>>
discVars == <<list, purifiers, humidifiers, classified>>
vars ==
  <<cfgVars, sessVars, rateVars, lockVars, timerVars, taskVars, obsVars, discVars, slept, saw429>>

\* ------------------------------------------------------ pure helpers

Min(a, b) == IF a < b THEN a ELSE b
Max(a, b) == IF a < b THEN b ELSE a

\* Past this age of minuteStart the window has expired even for a now that
\* rateLimit read before its spacing wait.
AgeCap == WindowMs + MinSpacingMs

\* new RegExp(this.email, 'gi') in logAxiosError: a SyntaxError for an email
\* that is no regular expression ("a++b": nothing to repeat).
RegExpCompiles(e) == e # "a++b@example.com"

\* logAxiosError(prefix, error) throws instead of logging: the error carries
\* a string body and the email does not compile.
LogThrows(e) == e.data = "string" /\ ~RegExpCompiles(email)

\* !response?.data is false
HasData(r) == r.data # None

\* A fault to test the properties against: a retry after any failure.
RetriesAnyFailure(r, a) == a < LastRetryIndex

\* A fault to test the properties against: a retry after every 429.
RetriesEvery429(r, a) == r.status = 429

\* error?.response?.status === 429 && attempt < 4
Retries(r, a) == r.status = 429 /\ a < LastRetryIndex

\* A fault to test the properties against: a backoff that does not grow.
BackoffFlat(a) == BackoffBaseMs

\* Math.min(1000 * 2 ** attempt, 60_000)
Backoff(a) == Min(BackoffBaseMs * (2 ^ a), BackoffCapMs)

\* Math.random() * 1000 lies in [0, 1000): its least value, the earliest retry
Jitters == {0}

\* status === 400 || status === 403 || msg === 'Forbidden'
IdentityRejected(e) == e.status \in {400, 403} \/ e.msg = "Forbidden"

\* What each operation's catch block returns.
Sentinel(o) ==
  IF o = "getDevices" THEN "empty" ELSE IF o = "getDeviceInfo" THEN "null" ELSE "false"

\* The catch block of an operation: logAxiosError, then the sentinel.
Caught(o, e) == IF LogThrows(e) THEN "thrown" ELSE Sentinel(o)

\* The delay an operation sleeps before it returns a response's result.
SettleOf(o) ==
  IF o = "getDevices" THEN DiscoverySettleMs
  ELSE IF o \in LoginOps THEN LoginSettleMs ELSE SettleMs

\* !v for a string or undefined
Missing(v) == v \in {None, ""}

\* A fault to test the properties against: login checks the token only.
LoginResolvedTokenOnly(r) ==
  IF ~HasData(r) THEN [next |-> "return", value |-> "false"]
  ELSE IF r.code # 0 THEN [next |-> "return", value |-> "false"]
  ELSE IF Missing(r.token) THEN [next |-> "return", value |-> "false"]
  ELSE [next |-> "settle", value |-> "true"]

\* What the four operations do with a response axios resolved with, up to their
\* next await or return: [next |-> "settle" | "return", value |-> ...].
LoginResolved(r) ==
  IF ~HasData(r) THEN [next |-> "return", value |-> "false"]
  ELSE IF r.code # 0 THEN [next |-> "return", value |-> "false"]
  ELSE IF Missing(r.token) \/ Missing(r.accountID) THEN [next |-> "return", value |-> "false"]
  ELSE [next |-> "settle", value |-> "true"]

SendCommandResolved(r) ==
  IF ~HasData(r) /\ r.circular
  THEN [next |-> "return", value |-> Caught("sendCommand", PlainError)]
  ELSE [next |-> "settle",
        value |-> IF HasData(r) /\ r.code = 0 THEN "true" ELSE "false"]

GetDeviceInfoResolved(r) ==
  IF ~HasData(r) /\ r.circular
  THEN [next |-> "return", value |-> Caught("getDeviceInfo", PlainError)]
  ELSE [next |-> "settle",
        value |-> IF ~HasData(r) THEN "absent"
                  ELSE IF r.code = 0 THEN "body" ELSE "bodyErr"]

GetDevicesResolved(r) ==
  IF ~HasData(r) THEN [next |-> "return", value |-> "empty"]
  ELSE IF r.code # 0 THEN [next |-> "return", value |-> "empty"]
  ELSE IF r.list = None THEN [next |-> "return", value |-> "empty"]
  ELSE [next |-> "settle", value |-> r.list]

Resolved(o, r) ==
  IF o \in LoginOps THEN LoginResolved(r)
  ELSE IF o = "sendCommand" THEN SendCommandResolved(r)
  ELSE IF o = "getDeviceInfo" THEN GetDeviceInfoResolved(r)
  ELSE GetDevicesResolved(r)

\* ----------------------------------------------------------- the state

BodyPcs == {"begin", "rl", "rlSpacing", "rlWindow", "net", "got", "backoff", "settle"}

\* Nothing has returned yet.
NoReturn == [by |-> None, op |-> None, value |-> None]

NoWire ==
  [by |-> None, op |-> None, field |-> None, clientType |-> None, userAgent |-> None,
   token |-> None, accountID |-> None, tk |-> None, accountid |-> None, slept |-> 0]

\* The credentials the client is constructed with.
Credentials ==
  {<<"user@example.com", "secret">>, <<"a++b@example.com", "secret">>,
   <<"", "secret">>, <<"user@example.com", "">>}

InitClient ==
  /\ \E c \in Credentials : email = c[1] /\ password = c[2]
  /\ token = None
  /\ accountId = None
  /\ clientType = Android
  /\ userAgent = AndroidUA
  /\ hdrTk = None
  /\ hdrAccountid = None
  /\ sinceRequest = MinSpacingMs
  /\ sinceMinute = 0
  /\ requestsThisMinute = 0
  /\ lockHolder = None
  /\ lockQueue = <<>>
  /\ timerLeft = -1
  /\ ticks = 0
  /\ op = [t \in AllTasks |-> None]
  /\ pc = [t \in AllTasks |-> "idle"]
  /\ attempt = [t \in AllTasks |-> 0]
  /\ field = [t \in AllTasks |-> None]
  /\ ident = [t \in AllTasks |-> 0]
  /\ held = [t \in AllTasks |-> None]
  /\ returned = NoReturn
  /\ calls = [t \in AllTasks |-> 0]
  /\ rlAgo = [t \in AllTasks |-> 0]
  /\ reqs = [t \in AllTasks |-> 0]
  /\ rsp = [t \in AllTasks |-> PlainError]
  /\ wire = NoWire
  /\ sinceWire = MinSpacingMs
  /\ gap = MinSpacingMs
  /\ winAge = 0
  /\ winCount = 0
  /\ throttled = 0
  /\ maxRetries = FALSE
  /\ slept = 0
  /\ saw429 = FALSE

\* No device list has been received yet.
Init ==
  /\ InitClient
  /\ list = <<>>
  /\ purifiers = <<>>
  /\ humidifiers = <<>>
  /\ classified = FALSE

\* ------------------------------------------------------------ the clock

\* The observer's window d ms later: closed once it is 60 s old.
WindowAfter(d) ==
  IF winCount > 0 /\ winAge + d < WindowMs
  THEN [age |-> winAge + d, n |-> winCount]
  ELSE [age |-> 0, n |-> 0]

\* The timer d ms later.
TimerAfter(d) == IF timerLeft < 0 THEN timerLeft ELSE Max(timerLeft - d, 0)

\* d ms pass and no request is issued.
Pass(d) ==
  /\ sinceRequest' = Min(sinceRequest + d, MinSpacingMs)
  /\ sinceMinute' = Min(sinceMinute + d, AgeCap)
  /\ requestsThisMinute' = requestsThisMinute
  /\ sinceWire' = Min(sinceWire + d, MinSpacingMs)
  /\ winAge' = WindowAfter(d).age
  /\ winCount' = WindowAfter(d).n
  /\ gap' = gap

\* ------------------------------------------------------------ the lock

\* A fault to test the properties against: a lock that lets everyone in.
CanEnterAlways == TRUE

\* lock.acquire('api-call', fn) runs fn at once when nothing holds the key,
\* and queues it otherwise.
CanEnter == lockHolder = None

\* A fault to test the properties against: a lock that is not handed over.
NextHolderNobody == None

\* The task the lock hands the key to when its holder is done.
NextHolder == IF lockQueue = <<>> THEN None ELSE Head(lockQueue)

\* t calls operation o: lock.acquire('api-call', ...).
Acquire(t, o) ==
  /\ op' = [op EXCEPT ![t] = o]
  /\ UNCHANGED <<returned, reqs>>
  /\ IF CanEnter
     THEN /\ lockHolder' = t
          /\ lockQueue' = lockQueue
          /\ pc' = [pc EXCEPT ![t] = "begin"]
     ELSE /\ lockHolder' = lockHolder
          /\ lockQueue' = Append(lockQueue, t)
          /\ pc' = [pc EXCEPT ![t] = "queued"]

\* startSession after its login: if (!firstLoginSuccess) return false; setInterval(...)
InstallsTimer(v) == v = "true"

\* The operation of t ends with v, d ms after the last step (v = "thrown": its
\* promise rejects): the lock passes to the head of the queue, and a
\* startSession goes on to install the timer.
Finish(t, v, d) ==
  /\ returned' = [by |-> t, op |-> op[t], value |-> v]
  /\ op' = [op EXCEPT ![t] = None]
  /\ IF lockHolder = t
     THEN /\ lockHolder' = NextHolder
          /\ lockQueue' = IF lockQueue = <<>> THEN lockQueue ELSE Tail(lockQueue)
          /\ pc' = [x \in AllTasks |->
                      IF x = t THEN "idle"
                      ELSE IF x = NextHolder THEN "begin" ELSE pc[x]]
     ELSE /\ UNCHANGED lockVars
          /\ pc' = [pc EXCEPT ![t] = "idle"]
  /\ timerLeft' = IF op[t] = "startSession" /\ InstallsTimer(v)
                  THEN ReloginMs ELSE TimerAfter(d)
  /\ attempt' = [attempt EXCEPT ![t] = 0]
  /\ field' = [field EXCEPT ![t] = None]
  /\ ident' = [ident EXCEPT ![t] = 0]
  /\ rlAgo' = [rlAgo EXCEPT ![t] = 0]
  /\ held' = [held EXCEPT ![t] = None]
  /\ rsp' = [rsp EXCEPT ![t] = PlainError]
  /\ reqs' = [reqs EXCEPT ![t] = 0]
  /\ slept' = 0
  /\ saw429' = FALSE

\* t goes on to pc value p, d ms after the last step, without returning.
Stay(t, p, d) ==
  /\ pc' = [pc EXCEPT ![t] = p]
  /\ timerLeft' = TimerAfter(d)
  /\ UNCHANGED <<lockVars, returned, op, reqs>>

\* ------------------------------------------------------------- callers

\* A caller calls one of the four public operations.  startSession is called
\* while no timer is installed and no other startSession is under way.
Invoke(t, o, counted) ==
  /\ pc[t] = "idle"
  /\ counted => calls[t] < MaxCalls
  /\ o = "startSession" => timerLeft < 0 /\ \A u \in Tasks : pc[u] = "idle" \/ op[u] # o
  /\ Acquire(t, o)
  /\ calls' = [calls EXCEPT ![t] = IF counted THEN @ + 1 ELSE @]
  /\ UNCHANGED <<cfgVars, discVars, slept, saw429, sessVars, rateVars, timerVars, obsVars,
                 attempt, field, ident, held, rlAgo, rsp>>

\* A tick of setInterval(this.login.bind(this), 55 min).
TimerFire ==
  /\ pc[TimerTask] = "idle"
  /\ ticks < MaxTicks
  /\ timerLeft = 0
  /\ timerLeft' = ReloginMs
  /\ ticks' = ticks + 1
  /\ Acquire(TimerTask, "login")
  /\ UNCHANGED <<cfgVars, discVars, slept, saw429, sessVars, rateVars, obsVars,
                 attempt, field, ident, held, rlAgo, calls, rsp>>

\* Nothing is running or queued: time passes until the tick is due.
AdvanceToTimer ==
  /\ lockHolder = None
  /\ ticks < MaxTicks
  /\ timerLeft > 0
  /\ Pass(timerLeft)
  /\ timerLeft' = 0
  /\ UNCHANGED <<cfgVars, discVars, slept, saw429, sessVars, lockVars, ticks, taskVars, wire, throttled, maxRetries>>

\* A fault to test the properties against: a login that does not check its
\* credentials.
BeginUnchecked(t) ==
  /\ pc[t] = "begin"
  /\ Stay(t, "rl", 0)
  /\ attempt' = [attempt EXCEPT ![t] = 0]
  /\ field' = [field EXCEPT ![t] = IF op[t] \in LoginOps THEN "account" ELSE None]
  /\ ident' = [ident EXCEPT ![t] = IF op[t] \in LoginOps THEN 1 ELSE 0]
  /\ UNCHANGED <<rlAgo, held, rsp, slept, saw429>>
  /\ UNCHANGED <<cfgVars, discVars, sessVars, rateVars, ticks, obsVars, calls>>

\* The body of the operation starts: login checks the credentials, the others
\* go straight to their request.
Begin(t) ==
  /\ pc[t] = "begin"
  /\ IF op[t] \in LoginOps /\ (email = "" \/ password = "")
     THEN /\ Finish(t, Caught(op[t], PlainError), 0)
     ELSE /\ Stay(t, "rl", 0)
          /\ attempt' = [attempt EXCEPT ![t] = 0]
          /\ field' = [field EXCEPT ![t] = IF op[t] \in LoginOps THEN "account" ELSE None]
          /\ ident' = [ident EXCEPT ![t] = IF op[t] \in LoginOps THEN 1 ELSE 0]
          /\ UNCHANGED <<rlAgo, held, rsp, slept, saw429>>
  /\ UNCHANGED <<cfgVars, discVars, sessVars, rateVars, ticks, obsVars, calls>>

\* ---------------------------------------------------- the rate limiter

\* A fault to test the properties against: generateBody() without the
\* session in the body of the device operations.
RequestWithoutAuth(t) ==
  [by |-> t, op |-> op[t], field |-> field[t],
   clientType |-> clientType, userAgent |-> userAgent,
   token |-> None, accountID |-> None,
   tk |-> hdrTk, accountid |-> hdrAccountid, slept |-> 0]

\* A fault to test the properties against: a body that always names the
\* primary clientType.
RequestPrimaryIdentity(t) ==
  [by |-> t, op |-> op[t], field |-> field[t],
   clientType |-> Android, userAgent |-> userAgent,
   token |-> IF op[t] \in AuthOps THEN token ELSE None,
   accountID |-> IF op[t] \in AuthOps THEN accountId ELSE None,
   tk |-> hdrTk, accountid |-> hdrAccountid, slept |-> 0]

\* The request fn() builds and sends: generateBody(true) for the device
\* operations, bodyCommon for login, and the api instance's default headers.
Request(t) ==
  [by |-> t, op |-> op[t], field |-> field[t],
   clientType |-> clientType, userAgent |-> userAgent,
   token |-> IF op[t] \in AuthOps THEN token ELSE None,
   accountID |-> IF op[t] \in AuthOps THEN accountId ELSE None,
   tk |-> hdrTk, accountid |-> hdrAccountid, slept |-> 0]

\* The request of t goes on the wire, d ms after the last step, which
\* rateLimit slept through.  The observer either starts its 60 s window at this
\* request or counts it into its window.
Issue(t, d, anchor) ==
  /\ pc' = [pc EXCEPT ![t] = "net"]
  /\ reqs' = [reqs EXCEPT ![t] = @ + 1]
  /\ wire' = [Request(t) EXCEPT !.slept = d]
  /\ gap' = Min(sinceWire + d, MinSpacingMs)
  /\ sinceWire' = 0
  /\ IF anchor
     THEN winAge' = 0 /\ winCount' = 1
     ELSE /\ winAge' = WindowAfter(d).age
          /\ winCount' = IF WindowAfter(d).n > 0 THEN WindowAfter(d).n + 1 ELSE 0
  /\ UNCHANGED <<throttled, maxRetries>>

\* A fault to test the properties against: rateLimit without its spacing wait.
NeverTooSoon == FALSE

\* diff < 1000 in rateLimit, diff = now - this.lastRequest
TooSoon == sinceRequest < MinSpacingMs

\* A fault to test the properties against: a rateLimit that stamps the
\* request but does not count it.
StampUncounted(t, d, sm, cnt, anchor) ==
  /\ sinceRequest' = 0
  /\ sinceMinute' = sm
  /\ requestsThisMinute' = cnt
  /\ rlAgo' = [rlAgo EXCEPT ![t] = 0]
  /\ Issue(t, d, anchor)

\* The end of rateLimit, d ms after the last step: this.lastRequest =
\* Date.now(); this.requestsThisMinute++, and requestWithRetry calls fn().
\* sm is the age of minuteStart and cnt the counter by then.
Stamp(t, d, sm, cnt, anchor) ==
  /\ sinceRequest' = 0
  /\ sinceMinute' = sm
  /\ requestsThisMinute' = cnt + 1
  /\ rlAgo' = [rlAgo EXCEPT ![t] = 0]
  /\ Issue(t, d, anchor)

\* rateLimit after its spacing wait of d ms, its local now being ago ms old:
\* the window reset, then the per-minute cap.
Window(t, d, ago, anchor) ==
  LET aged == Min(sinceMinute + d, AgeCap)
      reset == aged - ago >= WindowMs
      cnt == IF reset THEN 0 ELSE requestsThisMinute
      sm == IF reset THEN ago ELSE aged
  IN IF cnt >= MaxPerMinute
     THEN /\ pc' = [pc EXCEPT ![t] = "rlWindow"]
          /\ rlAgo' = [rlAgo EXCEPT ![t] = ago]
          /\ sinceRequest' = Min(sinceRequest + d, MinSpacingMs)
          /\ sinceMinute' = sm
          /\ requestsThisMinute' = cnt
          /\ sinceWire' = Min(sinceWire + d, MinSpacingMs)
          /\ winAge' = WindowAfter(d).age
          /\ winCount' = WindowAfter(d).n
          /\ UNCHANGED <<reqs, wire, gap, throttled, maxRetries>>
     ELSE Stamp(t, d, sm, cnt, anchor)

\* requestWithRetry calls rateLimit: const now = Date.now() ...
RateLimitEnter(t, anchor) ==
  /\ pc[t] = "rl"
  /\ IF TooSoon
     THEN /\ pc' = [pc EXCEPT ![t] = "rlSpacing"]
          /\ UNCHANGED <<rateVars, rlAgo, reqs, obsVars>>
     ELSE Window(t, 0, 0, anchor)
  /\ UNCHANGED <<cfgVars, discVars, slept, saw429, sessVars, lockVars, timerVars,
                 op, attempt, field, ident, held, returned, calls, rsp>>

\* delay(1000 - diff) is over.
SpacingElapsed(t, anchor) ==
  /\ pc[t] = "rlSpacing"
  /\ LET d == MinSpacingMs - sinceRequest
     IN /\ Window(t, d, d, anchor)
        /\ timerLeft' = TimerAfter(d)
  /\ UNCHANGED <<cfgVars, discVars, slept, saw429, sessVars, lockVars, ticks,
                 op, attempt, field, ident, held, returned, calls, rsp>>

\* delay(60_000 - (now - this.minuteStart)) is over: the counter restarts.
WindowElapsed(t, anchor) ==
  /\ pc[t] = "rlWindow"
  /\ LET d == WindowMs - (sinceMinute - rlAgo[t])
     IN /\ Stamp(t, d, 0, 0, anchor)
        /\ timerLeft' = TimerAfter(d)
  /\ UNCHANGED <<cfgVars, discVars, slept, saw429, sessVars, lockVars, ticks,
                 op, attempt, field, ident, held, returned, calls, rsp>>

\* ------------------------------------------------- requests and retries

\* The network latency: an answer in the same millisecond, which leaves the
\* least time between two requests.
Latencies == {0}

\* A fault to test the properties against: the fallback to the field 'email'
\* also switches the identity profile.
ThrownSwitchingIdentity(t, e, d) ==
  IF op[t] \in LoginOps /\ field[t] = "account"
  THEN /\ Stay(t, "rl", d)
       /\ field' = [field EXCEPT ![t] = "email"]
       /\ attempt' = [attempt EXCEPT ![t] = 0]
       /\ rsp' = [rsp EXCEPT ![t] = PlainError]
       /\ slept' = 0
       /\ saw429' = saw429
       /\ clientType' = IOS
       /\ userAgent' = IOSUA
       /\ UNCHANGED <<token, accountId, hdrTk, hdrAccountid, ident, held, rlAgo>>
  ELSE /\ Finish(t, Caught(op[t], e), d)
       /\ UNCHANGED sessVars

\* requestWithRetry throws e, d ms after the last step.  In login the first
\* request of attempt() falls back to the field 'email'; the first attempt()
\* falls back to the iOS identity on IdentityRejected; everything else
\* reaches the operation's catch block.
Thrown(t, e, d) ==
  IF op[t] \in LoginOps /\ field[t] = "account"
  THEN /\ Stay(t, "rl", d)
       /\ field' = [field EXCEPT ![t] = "email"]
       /\ attempt' = [attempt EXCEPT ![t] = 0]
       /\ rsp' = [rsp EXCEPT ![t] = PlainError]
       /\ slept' = 0
       /\ saw429' = saw429
       /\ UNCHANGED <<sessVars, ident, held, rlAgo>>
  ELSE IF op[t] \in LoginOps /\ ident[t] = 1 /\ IdentityRejected(e)
  THEN /\ Stay(t, "rl", d)
       /\ clientType' = IOS
       /\ userAgent' = IOSUA
       /\ ident' = [ident EXCEPT ![t] = 2]
       /\ field' = [field EXCEPT ![t] = "account"]
       /\ attempt' = [attempt EXCEPT ![t] = 0]
       /\ rsp' = [rsp EXCEPT ![t] = PlainError]
       /\ slept' = 0
       /\ saw429' = saw429
       /\ UNCHANGED <<token, accountId, hdrTk, hdrAccountid, held, rlAgo>>
  ELSE /\ Finish(t, Caught(op[t], e), d)
       /\ UNCHANGED sessVars

\* The request of t is answered with r after l ms: await fn() is over.
Answer(t, r, l, counted) ==
  /\ pc[t] = "net"
  /\ r \in Answers(op[t])
  /\ counted /\ r.status = 429 /\ attempt[t] = 0 => throttled < MaxThrottled
  /\ throttled' = IF counted /\ r.status = 429 /\ attempt[t] = 0
                  THEN throttled + 1 ELSE throttled
  /\ Pass(l)
  /\ rsp' = [rsp EXCEPT ![t] = r]
  /\ Stay(t, "got", l)
  /\ wire' = NoWire
  /\ saw429' = (saw429 \/ r.status = 429)
  /\ UNCHANGED <<cfgVars, discVars, slept, sessVars, ticks, maxRetries,
                 attempt, field, ident, held, calls, rlAgo>>

\* What the code does with the answer up to its next await or its return:
\* requestWithRetry returns it or retries or throws, and the operation goes on.
Handle(t) ==
  /\ pc[t] = "got"
  /\ IF rsp[t].ok
     THEN LET out == Resolved(op[t], rsp[t])
          IN IF out.next = "settle"
             THEN /\ Stay(t, "settle", 0)
                  /\ held' = [held EXCEPT ![t] = out.value]
                  /\ IF op[t] \in LoginOps
                     THEN /\ accountId' = rsp[t].accountID
                          /\ token' = rsp[t].token
                          /\ hdrTk' = rsp[t].token
                          /\ hdrAccountid' = rsp[t].accountID
                          /\ UNCHANGED <<clientType, userAgent>>
                     ELSE UNCHANGED sessVars
                  /\ UNCHANGED <<attempt, field, ident, rlAgo, rsp, slept, saw429>>
             ELSE /\ Finish(t, out.value, 0)
                  /\ UNCHANGED sessVars
     ELSE IF Retries(rsp[t], attempt[t])
     THEN /\ Stay(t, "backoff", 0)
          /\ UNCHANGED <<sessVars, attempt, field, ident, held, rlAgo, rsp, slept, saw429>>
     ELSE Thrown(t, rsp[t], 0)
  /\ UNCHANGED <<cfgVars, discVars, rateVars, ticks, obsVars, calls>>

\* delay(backoff + jitter) is over: continue, attempt++, and the loop test
\* attempt < 5; past it, throw new Error('Max retries reached').
BackoffElapsed(t, j) ==
  /\ pc[t] = "backoff"
  /\ Pass(Backoff(attempt[t]) + j)
  /\ IF attempt[t] + 1 < MaxAttempts
     THEN /\ Stay(t, "rl", Backoff(attempt[t]) + j)
          /\ attempt' = [attempt EXCEPT ![t] = @ + 1]
          /\ maxRetries' = maxRetries
          /\ rsp' = [rsp EXCEPT ![t] = PlainError]
          /\ slept' = Backoff(attempt[t]) + j
          /\ saw429' = saw429
          /\ UNCHANGED <<sessVars, field, ident, held, rlAgo>>
     ELSE /\ maxRetries' = TRUE
          /\ Thrown(t, PlainError, Backoff(attempt[t]) + j)
  /\ UNCHANGED <<cfgVars, discVars, ticks, wire, throttled, calls>>

\* The settling delay is over: the operation returns what it held.
SettleElapsed(t) ==
  /\ pc[t] = "settle"
  /\ Pass(SettleOf(op[t]))
  /\ Finish(t, held[t], SettleOf(op[t]))
  /\ UNCHANGED <<cfgVars, discVars, sessVars, ticks, wire, throttled, maxRetries, calls>>

\* ---------------------------------------------------- specifications

Next ==
  \/ \E t \in Callers, o \in CallerOps : Invoke(t, o, TRUE)
  \/ TimerFire
  \/ AdvanceToTimer
  \/ \E t \in Tasks : Begin(t)
  \/ \E t \in Tasks : RateLimitEnter(t, FALSE)
  \/ \E t \in Tasks : SpacingElapsed(t, FALSE)
  \/ \E t \in Tasks, l \in Latencies : \E r \in Answers(op[t]) : Answer(t, r, l, TRUE)
  \/ \E t \in Tasks : Handle(t)
  \/ \E t \in Tasks, j \in Jitters : BackoffElapsed(t, j)
  \/ \E t \in Tasks : SettleElapsed(t)

Spec == Init /\ [][Next]_vars

\* The fastest traffic the client can make: one caller that calls without end
\* and without pause, and answers on which getDevices returns without its
\* settling delay or retries; and an observer that starts a 60 s window at a
\* request of its choice.
RateOps == {"getDevices"}

\* An answer in the same millisecond, and one at the axios timeout.
RateLatencies == {0, RequestTimeoutMs}

RateAnswers ==
  {Rsp(TRUE, 200, "object", 1, "err", None, None, None, FALSE),
   Rsp(FALSE, 429, "object", 1, "", None, None, None, FALSE)}

NextRate ==
  \/ \E o \in RateOps : Invoke("c1", o, FALSE)
  \/ Begin("c1")
  \/ \E a \in BOOLEAN : RateLimitEnter("c1", a)
  \/ \E a \in BOOLEAN : SpacingElapsed("c1", a)
  \/ \E a \in BOOLEAN : WindowElapsed("c1", a)
  \/ \E l \in RateLatencies : \E r \in RateAnswers : Answer("c1", r, l, TRUE)
  \/ Handle("c1")
  \/ \E j \in Jitters : BackoffElapsed("c1", j)

InitRate == Init /\ email = "user@example.com" /\ password = "secret"

SpecRate == InitRate /\ [][NextRate]_vars

\* Two client instances in one process: a caller of this instance and an
\* operation on the other instance, whose body runs on the other instance's
\* fields and holds the shared lock up to the end of its settling delay.
InvokeOther ==
  /\ pc[OtherTask] = "idle"
  /\ calls[OtherTask] < MaxCalls
  /\ Acquire(OtherTask, "sendCommand")
  /\ calls' = [calls EXCEPT ![OtherTask] = @ + 1]
  /\ UNCHANGED <<cfgVars, discVars, slept, saw429, sessVars, rateVars, timerVars, obsVars,
                 attempt, field, ident, held, rlAgo, rsp>>

\* The other instance's sendCommand is over, delay(500) included: its
\* callback returns and the lock passes on.
OtherReturns ==
  /\ pc[OtherTask] = "begin"
  /\ Pass(SettleMs)
  /\ Finish(OtherTask, "true", SettleMs)
  /\ UNCHANGED <<cfgVars, discVars, sessVars, ticks, wire, throttled, maxRetries, calls>>

NextInstances ==
  \/ \E o \in CallerOps : Invoke("c1", o, TRUE)
  \/ InvokeOther
  \/ OtherReturns
  \/ Begin("c1")
  \/ RateLimitEnter("c1", FALSE)
  \/ SpacingElapsed("c1", FALSE)
  \/ \E l \in Latencies : \E r \in Answers(op["c1"]) : Answer("c1", r, l, TRUE)
  \/ Handle("c1")
  \/ \E j \in Jitters : BackoffElapsed("c1", j)
  \/ SettleElapsed("c1")

SpecInstances == Init /\ [][NextInstances]_vars

\* ------------------------------------------------------ device discovery

\* The longest device list drawn.
MaxList == 2

\* A property or block that may be undefined: <<>>, or <<v>> for the value v.
Undefined == <<>>
Some(v) == <<v>>

\* A deviceType that an entry of deviceTypes accepts, one that an entry of
\* humidifierDeviceTypes accepts, and one that neither table knows.
PurifierType == "purifier"
HumidifierType == "humidifier"
UnknownType == "unknown"
DeviceTypeNames == {PurifierType, HumidifierType, UnknownType}

\* !!deviceTypes.find(({ isValid }) => isValid(deviceType))
IsPurifierType(dt) == dt = PurifierType

\* !!humidifierDeviceTypes.find(({ isValid }) => isValid(deviceType))
IsHumidifierType(dt) == dt = HumidifierType

WifiAir == "wifi-air"
ConnectionTypes == {WifiAir, "wifi-switch"}

\* The extension of a raw record: none, an empty one, and one with a
\* fanSpeedLevel of 0 or 3.
Extensions ==
  {Undefined, Some([fanSpeedLevel |-> Undefined])}
  \cup {Some([fanSpeedLevel |-> Some(n)]) : n \in {0, 3}}

\* The deviceProp of a raw record: none, or a block of the newer purifiers.
DeviceProps ==
  {Undefined,
   Some([AQLevel |-> 1, workMode |-> "auto", powerSwitch |-> 1]),
   Some([AQLevel |-> 3, workMode |-> "manual", powerSwitch |-> 0])}

\* The records of result.list, but for their uuid.
RawShapes ==
  [deviceType : DeviceTypeNames, type : ConnectionTypes,
   extension : Extensions, deviceProp : DeviceProps]

\* The device lists a response carries: record i has the uuid i.
RawLists ==
  UNION {{[i \in 1..n |->
             [uuid |-> i, deviceType |-> f[i].deviceType, type |-> f[i].type,
              extension |-> f[i].extension, deviceProp |-> f[i].deviceProp]] :
            f \in [1..n -> RawShapes]} : n \in 0..MaxList}

\* !!extension?.fanSpeedLevel
HasFanSpeedLevel(r) ==
  /\ r.extension # Undefined
  /\ r.extension[1].fanSpeedLevel # Undefined
  /\ r.extension[1].fanSpeedLevel[1] # 0

\* The filter of the first purifiers pass.
LegacyPurifier(r) ==
  IsPurifierType(r.deviceType) /\ r.type = WifiAir /\ HasFanSpeedLevel(r)

\* A fault to test the properties against: the second pass tests extension.
ModernPurifierByExtension(r) ==
  IsPurifierType(r.deviceType) /\ r.type = WifiAir /\ r.extension # Undefined

\* The filter of the second purifiers pass: ... && !!deviceProp
ModernPurifier(r) ==
  IsPurifierType(r.deviceType) /\ r.type = WifiAir /\ r.deviceProp # Undefined

\* A fault to test the properties against: the humidifier filter without its
\* test of extension.
HumidifierWithExtension(r) ==
  IsHumidifierType(r.deviceType) /\ r.type = WifiAir

\* The filter of the humidifiers pass: ... && !extension
Humidifier(r) ==
  IsHumidifierType(r.deviceType) /\ r.type = WifiAir /\ r.extension = Undefined

\* { ...fan, extension: { ...fan.deviceProp, airQualityLevel:
\* fan.deviceProp.AQLevel, mode: fan.deviceProp.workMode } }
Synthesized(fan) ==
  LET dp == fan.deviceProp[1]
  IN [fan EXCEPT !.extension =
        Some([k \in DOMAIN dp \cup {"airQualityLevel", "mode"} |->
                IF k = "airQualityLevel" THEN dp.AQLevel
                ELSE IF k = "mode" THEN dp.workMode ELSE dp[k]])]

\* VeSyncFan.fromResponse(this) and VeSyncHumidifier.fromResponse(this): the
\* typed device of a record, bound to this client.
FanFromResponse(r) == [typed |-> "VeSyncFan", client |-> "this", raw |-> r]
HumidifierFromResponse(r) == [typed |-> "VeSyncHumidifier", client |-> "this", raw |-> r]

\* list.filter(...).map(...) of the two purifier passes, concatenated.
Purifiers(l) ==
  LET legacy == SelectSeq(l, LegacyPurifier)
      modern == SelectSeq(l, ModernPurifier)
  IN [i \in 1..Len(legacy) |-> FanFromResponse(legacy[i])]
     \o [i \in 1..Len(modern) |-> FanFromResponse(Synthesized(modern[i]))]

\* list.filter(...).map(...) of the humidifiers pass.
Humidifiers(l) ==
  LET found == SelectSeq(l, Humidifier)
  IN [i \in 1..Len(found) |-> HumidifierFromResponse(found[i])]

\* getDevices builds its two collections from the list of the response.
Classify ==
  /\ ~classified
  /\ classified' = TRUE
  /\ purifiers' = Purifiers(list)
  /\ humidifiers' = Humidifiers(list)
  /\ UNCHANGED <<list, cfgVars, sessVars, rateVars, lockVars, timerVars, taskVars, obsVars, slept, saw429>>

NextClassify == Classify

\* A client whose getDevices has received a device list.
InitClassify ==
  /\ InitClient
  /\ email = "user@example.com"
  /\ password = "secret"
  /\ list \in RawLists
  /\ purifiers = <<>>
  /\ humidifiers = <<>>
  /\ classified = FALSE

SpecClassify == InitClassify /\ [][NextClassify]_vars

\* Math.random() * 1000 at its least, in the middle and at its greatest, in
\* whole milliseconds.
JitterSamples == {0, 500, 999}

\* One getDevices whose requests are answered with 429 as often as the retry
\* policy allows, under every sampled jitter.
NextBackoff ==
  \/ \E o \in RateOps : Invoke("c1", o, TRUE)
  \/ Begin("c1")
  \/ RateLimitEnter("c1", FALSE)
  \/ \E l \in Latencies : \E r \in RateAnswers : Answer("c1", r, l, FALSE)
  \/ Handle("c1")
  \/ \E j \in JitterSamples : BackoffElapsed("c1", j)

SpecBackoff == InitRate /\ [][NextBackoff]_vars

\* The steps of the operation of t that need no caller: its code runs on, its
\* timers fire and its network call is answered or fails.
Progress(t) ==
  \/ Begin(t)
  \/ RateLimitEnter(t, FALSE)
  \/ SpacingElapsed(t, FALSE)
  \/ \E l \in Latencies : \E r \in Answers(op[t]) : Answer(t, r, l, TRUE)
  \/ Handle(t)
  \/ \E j \in Jitters : BackoffElapsed(t, j)
  \/ SettleElapsed(t)

\* The event loop runs every continuation that is ready, and every network
\* call ends.
Fairness == \A t \in Tasks : WF_vars(Progress(t))

\* Two callers, each calling one operation of its choice.
NextFair ==
  \/ \E t \in Callers, o \in CallerOps : Invoke(t, o, TRUE)
  \/ \E t \in Callers : Progress(t)

SpecFair == Init /\ [][NextFair]_vars /\ Fairness

\* One startSession whose requests are answered in every way, with 429 as
\* often as the retry policy allows.
NextLogin ==
  \/ Invoke("c1", "startSession", TRUE)
  \/ Begin("c1")
  \/ RateLimitEnter("c1", FALSE)
  \/ SpacingElapsed("c1", FALSE)
  \/ \E l \in Latencies : \E r \in Answers(op["c1"]) : Answer("c1", r, l, FALSE)
  \/ Handle("c1")
  \/ \E j \in Jitters : BackoffElapsed("c1", j)
  \/ SettleElapsed("c1")

SpecLogin == Init /\ [][NextLogin]_vars

\* ------------------------------------------------------------ properties

\* The tasks inside the body that lock.acquire protects.
InBody == {t \in Tasks : pc[t] \in BodyPcs}

\* C1  Mutual exclusion: at most one operation is inside its protected body,
\* from before its first request through its rate-limit waits, its backoff
\* waits and its settling delay; it is the holder of the lock; and a request
\* on the wire is always a request of that operation.
MutualExclusion ==
  /\ Cardinality(InBody) <= 1
  /\ \A t \in InBody : lockHolder = t
  /\ \A t \in Tasks : pc[t] = "queued" => lockHolder \notin {None, t}
  /\ wire.by # None => wire.by = lockHolder /\ pc[wire.by] = "net"

\* An operation is in its backoff wait, after a request of its own, while
\* another one waits for the lock.
MutualExclusionWitness ==
  \E t, u \in Tasks : pc[t] = "backoff" /\ reqs[t] > 0 /\ pc[u] = "queued"

\* C2  Minimum spacing: every request goes on the wire at least 1000 ms after
\* the request before it, whichever operations and retries the two belong to.
MinimumSpacing == gap >= MinSpacingMs

\* The second request of one operation has just gone out, after rateLimit
\* slept for the full spacing.
MinimumSpacingWitness ==
  \E t \in Tasks : /\ pc[t] = "net"
                   /\ reqs[t] >= 2
                   /\ wire.slept = MinSpacingMs
                   /\ sinceWire = 0

\* C3  Per-minute cap: a window of 60 s that starts at any request holds at
\* most 60 requests (the window is half open: a request exactly 60 000 ms
\* after the first belongs to the next one).
PerMinuteCap == winCount <= MaxPerMinute

\* The observer's window holds 60 requests, and so does the counter of the
\* rate limiter.
PerMinuteCapWitness ==
  winCount = MaxPerMinute /\ requestsThisMinute = MaxPerMinute

\* C4  Bounded retry: requestWithRetry makes at most 5 attempts, waits for a
\* retry only after a 429 on one of the first 4, goes on with the first
\* answer axios resolves with, and never throws 'Max retries reached'.
BoundedRetry ==
  /\ \A t \in Tasks : attempt[t] < MaxAttempts
  /\ \A t \in Tasks : pc[t] = "backoff" =>
       rsp[t].status = 429 /\ ~rsp[t].ok /\ attempt[t] < LastRetryIndex
  /\ \A t \in Tasks : pc[t] = "settle" => rsp[t].ok
  /\ ~maxRetries

\* The fifth attempt has been answered with 429.
BoundedRetryWitness ==
  \E t \in Tasks : /\ pc[t] = "got"
                   /\ attempt[t] = LastRetryIndex
                   /\ rsp[t].status = 429

\* C5  No operation throws: whatever the network does, every operation and
\* every timer-fired login ends with a value, never with a rejected promise.
NoOperationThrows == returned.value # "thrown"

\* t returns in this step.
Returns(t) == returned' # returned /\ returned'.by = t

\* C6  Vendor failure code: an operation whose request is answered with HTTP
\* success and a body of code !== 0 returns its failure sentinel: false for
\* sendCommand and login, null for getDeviceInfo, empty collections for
\* getDevices.
VendorFailureSentinel ==
  [][\A t \in Tasks :
       Returns(t) /\ rsp[t].ok /\ HasData(rsp[t]) /\ rsp[t].code # 0
         => returned'.value = Sentinel(op[t])]_vars

\* C7  sendCommand returns true if and only if its request succeeded with a
\* body of code 0, and false otherwise.
SendCommandIff ==
  [][\A t \in Tasks :
       Returns(t) /\ op[t] = "sendCommand"
         => /\ returned'.value \in {"true", "false"}
            /\ returned'.value = "true"
                 <=> rsp[t].ok /\ HasData(rsp[t]) /\ rsp[t].code = 0]_vars

\* C8  Fail-fast without a session: while no login has succeeded, getDevices,
\* getDeviceInfo and sendCommand put no request on the wire and leave the
\* counters of the rate limiter alone (reqs counts the passes of rateLimit that
\* stamped a request of the running operation and sent it).
FailFastWithoutSession ==
  \A t \in Tasks :
    op[t] \in AuthOps /\ token = None /\ accountId = None
      => reqs[t] = 0

\* C9  getDevices before any successful login returns something else than a
\* discovery that found no supported device.
PreLoginDistinguishable ==
  returned.op = "getDevices" /\ token = None
    => returned.value # GetDevicesResolved(
                          Rsp(TRUE, 200, "object", 0, "", None, None, "empty", FALSE)).value

\* C10  startSession installs the re-login timer whether its login succeeded
\* or failed.
TimerInstalledUnconditionally ==
  returned.op = "startSession" => timerLeft >= 0

\* t takes this step.
Steps(t) == pc'[t] # pc[t]

\* An identity-level attempt of login fails: requestWithRetry throws for its
\* request with the field 'email'.
AttemptFails(t) ==
  /\ pc[t] = "got"
  /\ op[t] \in LoginOps
  /\ field[t] = "email"
  /\ ~rsp[t].ok
  /\ ~Retries(rsp[t], attempt[t])

\* C11  Single identity fallback: a login whose attempt under the current
\* profile fails with 400, 403 or msg 'Forbidden' repeats the attempt under
\* the fallback profile, once; when that attempt fails too, with whatever
\* status, login returns false and makes no third attempt.
SingleIdentityFallback ==
  [][\A t \in Tasks :
       /\ ident'[t] <= 2
       /\ ident'[t] = 2 /\ ident[t] # 2
            => AttemptFails(t) /\ ident[t] = 1 /\ IdentityRejected(rsp[t])
       /\ Steps(t) /\ AttemptFails(t) /\ ident[t] = 1 /\ IdentityRejected(rsp[t])
            => /\ ident'[t] = 2 /\ pc'[t] = "rl" /\ field'[t] = "account"
               /\ clientType' = IOS /\ userAgent' = IOSUA
       /\ Steps(t) /\ AttemptFails(t) /\ ident[t] = 2
            => Returns(t) /\ returned'.value = "false"]_vars

\* The session a login leaves behind: the stored pair, the attached headers
\* and the identity profile.
SessionState ==
  [token |-> token, accountId |-> accountId, tk |-> hdrTk, accountid |-> hdrAccountid,
   clientType |-> clientType, userAgent |-> userAgent]

\* The session a login under the profile ct, ua stores from the response r.
StoredFrom(r, ct, ua) ==
  [token |-> r.token, accountId |-> r.accountID, tk |-> r.token, accountid |-> r.accountID,
   clientType |-> ct, userAgent |-> ua]

\* C12  Alternate-field equivalence: the fallback from the field 'account' to
\* the field 'email' happens only on a failed request and leaves the session
\* and the identity profile as they were; an accepted response is stored in
\* the same way whichever field its request used, nothing changes the session
\* during the settling delay, and the login returns true.  So a login accepted
\* through 'email' ends in the session of one accepted through 'account' with
\* the same response.
AlternateFieldEquivalence ==
  [][/\ \A t \in Tasks : op[t] \in LoginOps /\ Steps(t) =>
          /\ field[t] = "account" /\ field'[t] = "email"
               => /\ pc[t] \in {"got", "backoff"}
                  /\ pc[t] = "got" => ~rsp[t].ok
                  /\ pc'[t] = "rl"
                  /\ SessionState' = SessionState
                  /\ ident'[t] = ident[t]
          /\ pc[t] = "got" /\ rsp[t].ok /\ LoginResolved(rsp[t]).next = "settle"
               => /\ SessionState' = StoredFrom(rsp[t], clientType, userAgent)
                  /\ pc'[t] = "settle"
                  /\ held'[t] = "true"
          /\ pc[t] = "settle" => Returns(t) /\ returned'.value = "true"
     /\ (\E t \in Tasks : op[t] \in LoginOps /\ pc[t] = "settle")
          => SessionState' = SessionState]_vars

\* A login accepted through the field 'email' is in its settling delay.
AlternateFieldEquivalenceWitness ==
  \E t \in Tasks :
    /\ op[t] \in LoginOps
    /\ pc[t] = "settle"
    /\ field[t] = "email"
    /\ SessionState = StoredFrom([token |-> token, accountID |-> accountId], Android, AndroidUA)
    /\ token # None

\* The stored pair is complete: a token and an accountId, neither empty.
PairPresent == ~Missing(token) /\ ~Missing(accountId)

\* C13  Session pair invariant: token and accountId are always both present
\* or both absent; a step stores them only as the pair of a login response
\* with code 0 that holds a non-empty token and a non-empty accountID, and a
\* login whose response lacks either returns false and stores neither.
SessionPairInvariant ==
  /\ [](PairPresent \/ (token = None /\ accountId = None))
  /\ [][/\ <<token, accountId>>' # <<token, accountId>>
             => \E t \in Tasks :
                  /\ op[t] \in LoginOps /\ pc[t] = "got" /\ Steps(t)
                  /\ rsp[t].ok /\ HasData(rsp[t]) /\ rsp[t].code = 0
                  /\ ~Missing(rsp[t].token) /\ ~Missing(rsp[t].accountID)
                  /\ token' = rsp[t].token /\ accountId' = rsp[t].accountID
        /\ \A t \in Tasks :
             /\ op[t] \in LoginOps /\ pc[t] = "got" /\ Steps(t)
             /\ rsp[t].ok /\ (Missing(rsp[t].token) \/ Missing(rsp[t].accountID))
             => /\ Returns(t) /\ returned'.value = "false"
                /\ <<token, accountId>>' = <<token, accountId>>]_vars

\* A login that follows a successful one is answered with code 0 and a token
\* but an empty accountID.
SessionPairInvariantWitness ==
  \E t \in Tasks :
    /\ op[t] \in LoginOps
    /\ pc[t] = "got"
    /\ rsp[t].ok /\ rsp[t].code = 0
    /\ ~Missing(rsp[t].token) /\ rsp[t].accountID = ""
    /\ PairPresent

\* C14  Settling delay on every outcome: sendCommand, getDeviceInfo and
\* getDevices, once they have made a network call, return and release the
\* lock only at the end of their settling delay of 500 ms or 1500 ms, whatever
\* the call's outcome.
SettlingDelayOnEveryOutcome ==
  [][\A t \in Tasks :
       Returns(t) /\ op[t] \in AuthOps /\ reqs[t] > 0
         => /\ pc[t] = "settle"
            /\ SettleOf(op[t]) = IF op[t] = "getDevices" THEN 1500 ELSE 500]_vars

\* C20  No retry on other failures: when a request fails with anything but
\* HTTP 429, at any attempt index, requestWithRetry throws in the same step:
\* no backoff wait, no time passes and that call makes no further attempt.  The
\* operation returns from its catch block, or login goes on to its next call
\* of requestWithRetry, under the other field name or identity profile.
NoRetryOnOtherFailures ==
  [][\A t \in Tasks :
       Steps(t) /\ pc[t] = "got" /\ ~rsp[t].ok /\ rsp[t].status # 429
         => /\ pc'[t] # "backoff"
            /\ sinceRequest' = sinceRequest
            /\ requestsThisMinute' = requestsThisMinute
            /\ attempt'[t] = 0
            /\ \/ Returns(t)
               \/ /\ op[t] \in LoginOps
                  /\ pc'[t] = "rl"
                  /\ <<field'[t], ident'[t]>> # <<field[t], ident[t]>>]_vars

\* A request that follows a 429 and its backoff has failed with HTTP 500.
NoRetryOnOtherFailuresWitness ==
  \E t \in Tasks :
    /\ pc[t] = "got"
    /\ attempt[t] > 0
    /\ ~rsp[t].ok
    /\ rsp[t].status = 500

\* t and u are operations on the same VeSync instance.
SameInstance(t, u) == (t = OtherTask) <=> (u = OtherTask)

\* C19  Per-instance serialization: an operation waits for the lock only
\* behind an operation of its own VeSync instance, never behind one that is
\* in progress on a different instance.
PerInstanceSerialization ==
  \A t \in AllTasks : pc[t] = "queued" => SameInstance(t, lockHolder)

\* The typed devices of a collection built from the raw record r.
BuiltFrom(devices, r) == {j \in 1..Len(devices) : devices[j].raw.uuid = r.uuid}

\* The raw records of the list.
Records == {list[i] : i \in 1..Len(list)}

\* C15  Legacy purifier rule: every raw record of a known purifier type and of
\* type 'wifi-air' whose extension block has a fanSpeedLevel field, whatever
\* its value, is in the purifiers collection of getDevices.
LegacyPurifierRule ==
  classified =>
    \A r \in Records :
      /\ IsPurifierType(r.deviceType)
      /\ r.type = "wifi-air"
      /\ r.extension # Undefined
      /\ r.extension[1].fanSpeedLevel # Undefined
      => \E j \in BuiltFrom(purifiers, r) : purifiers[j].typed = "VeSyncFan"

\* C16  Modern purifier rule: every raw record of a known purifier type and of
\* type 'wifi-air' with a deviceProp block and no extension is in the
\* purifiers collection, as a fan built from the record with a synthesized
\* extension: airQualityLevel is deviceProp.AQLevel, mode is
\* deviceProp.workMode, and the fields of deviceProp are copied unchanged.
ModernPurifierRule ==
  classified =>
    \A r \in Records :
      /\ IsPurifierType(r.deviceType)
      /\ r.type = "wifi-air"
      /\ r.deviceProp # Undefined
      /\ r.extension = Undefined
      => \E j \in BuiltFrom(purifiers, r) :
           LET fan == purifiers[j].raw
               dp == r.deviceProp[1]
           IN /\ purifiers[j].typed = "VeSyncFan"
              /\ fan.deviceType = r.deviceType
              /\ fan.type = r.type
              /\ fan.deviceProp = r.deviceProp
              /\ fan.extension # Undefined
              /\ fan.extension[1].airQualityLevel = dp.AQLevel
              /\ fan.extension[1].mode = dp.workMode
              /\ \A k \in DOMAIN dp : fan.extension[1][k] = dp[k]

\* A list with a newer purifier, whose deviceProp reports AQLevel 3 and
\* workMode 'manual', has been classified.
ModernPurifierRuleWitness ==
  /\ classified
  /\ \E r \in Records :
       /\ IsPurifierType(r.deviceType)
       /\ r.type = "wifi-air"
       /\ r.extension = Undefined
       /\ r.deviceProp # Undefined
       /\ r.deviceProp[1].AQLevel = 3
       /\ r.deviceProp[1].workMode = "manual"
       /\ BuiltFrom(purifiers, r) # {}

\* C17  Humidifier rule: a raw record is in the humidifiers collection if and
\* only if it is of a known humidifier type and of type 'wifi-air' and has no
\* extension block; a record of a humidifier type with an extension block is
\* in neither collection unless a purifier rule matches it.
HumidifierRule ==
  classified =>
    \A r \in Records :
      /\ BuiltFrom(humidifiers, r) # {}
           <=> /\ IsHumidifierType(r.deviceType)
               /\ r.type = "wifi-air"
               /\ r.extension = Undefined
      /\ \A j \in BuiltFrom(humidifiers, r) :
           humidifiers[j] = [typed |-> "VeSyncHumidifier", client |-> "this", raw |-> r]
      /\ IsHumidifierType(r.deviceType) /\ r.extension # Undefined
           => /\ BuiltFrom(humidifiers, r) = {}
              /\ BuiltFrom(purifiers, r) # {}
                   => /\ IsPurifierType(r.deviceType)
                      /\ r.type = "wifi-air"
                      /\ r.deviceProp # Undefined \/ r.extension[1].fanSpeedLevel # Undefined

\* A list with two records of a humidifier type and of type 'wifi-air', one
\* without and one with an extension block, has been classified.
HumidifierRuleWitness ==
  /\ classified
  /\ Len(humidifiers) = 1
  /\ \E r, s \in Records :
       /\ IsHumidifierType(r.deviceType) /\ IsHumidifierType(s.deviceType)
       /\ r.type = "wifi-air" /\ s.type = "wifi-air"
       /\ r.extension = Undefined /\ s.extension # Undefined
       /\ BuiltFrom(humidifiers, r) # {}

\* C18  Disjoint classification: every raw record yields at most one typed
\* device in the two collections of getDevices together, also when it
\* satisfies more than one rule.
DisjointClassification ==
  classified =>
    \A r \in Records :
      Cardinality(BuiltFrom(purifiers, r)) + Cardinality(BuiltFrom(humidifiers, r)) <= 1

\* C21  Backoff schedule: the wait after the failed attempt with index a, a in
\* 0..3, is min(1000 * 2^a, 60000) ms plus a jitter of 0 to 999 ms; it is
\* never shorter than the wait before it in the same call, whatever the
\* jitters, and never longer than 61000 ms.
BackoffSchedule ==
  [][\A t \in Tasks :
       Steps(t) /\ pc[t] = "backoff"
         => /\ attempt[t] \in 0..3
            /\ slept' - Min(1000 * (2 ^ attempt[t]), 60000) \in 0..999
            /\ slept' >= slept
            /\ slept' <= 61000
            /\ attempt[t] > 0 => slept - Min(1000 * (2 ^ (attempt[t] - 1)), 60000) \in 0..999]_vars

\* The fourth wait of a call is over, with the greatest jitter: the fifth
\* attempt is about to be made.
BackoffScheduleWitness ==
  \E t \in Tasks : pc[t] = "rl" /\ attempt[t] = 4 /\ slept = 8999

\* t makes a network attempt in this step.
Attempts(t) == reqs'[t] = reqs[t] + 1

\* C22  Throttle precedes every attempt: a network attempt, first or retry,
\* is made in the step that ends a pass of rateLimit, which stamps lastRequest
\* and counts the request once, on top of the counter or of the 0 it was reset
\* to in that pass; and nothing else stamps or counts, so every counted
\* request is a network attempt.
ThrottlePrecedesEveryAttempt ==
  [][/\ \A t \in Tasks :
          Attempts(t)
            => /\ pc[t] \in {"rl", "rlSpacing", "rlWindow"}
               /\ pc'[t] = "net"
               /\ wire'.by = t
               /\ sinceRequest' = 0
               /\ requestsThisMinute' \in {requestsThisMinute + 1, 1}
               /\ \A u \in Tasks \ {t} : reqs'[u] = reqs[u]
     /\ requestsThisMinute' # requestsThisMinute \/ sinceRequest' < sinceRequest
          \/ (wire' # wire /\ wire'.by # None)
          => \E t \in Tasks : Attempts(t)]_vars

\* A retry is on the wire, counted after the attempt it follows.
ThrottlePrecedesEveryAttemptWitness ==
  \E t \in Tasks :
    /\ pc[t] = "net"
    /\ attempt[t] > 0
    /\ reqs[t] > 1
    /\ requestsThisMinute >= reqs[t]
    /\ sinceRequest = 0

\* The time the pass of rateLimit that t is in still sleeps before it stamps.
SleepLeft(t) ==
  IF pc[t] = "rlSpacing" THEN MinSpacingMs - sinceRequest
  ELSE IF pc[t] = "rlWindow" THEN WindowMs - (sinceMinute - rlAgo[t])
  ELSE 0

\* C23  Window reset invariant: when rateLimit stamps a request 60000 ms or
\* more after minuteStart, it has reset the counter and advanced minuteStart
\* in that pass, so that the request is the first of its window; when it
\* stamps earlier the counter is not reset and minuteStart stays; also after
\* the spacing wait.
WindowResetInvariant ==
  [][\A t \in Tasks :
       Attempts(t) =>
         LET elapsed == sinceMinute + SleepLeft(t)
         IN /\ elapsed >= 60000
                 => requestsThisMinute' = 1 /\ sinceMinute' <= SleepLeft(t)
            /\ elapsed < 60000
                 => requestsThisMinute' = requestsThisMinute + 1 /\ sinceMinute' = elapsed]_vars

\* C24  Failed login returns the session to Unauthenticated: when a login
\* fails, the first one or a refresh of an authenticated client, the client
\* is left without a session: no token, no accountId and no auth headers.
FailedLoginClearsSession ==
  [][\A t \in Tasks :
       Returns(t) /\ op[t] \in LoginOps /\ returned'.value # "true"
         => /\ token' = None
            /\ accountId' = None
            /\ hdrTk' = None
            /\ hdrAccountid' = None]_vars

\* C25  Freshest credentials: once a login has succeeded, every request of
\* getDevices, getDeviceInfo and sendCommand on the wire, first attempt or
\* retry, carries in its body and in its headers the token and accountId the
\* client holds, and these are at every moment the pair of the last response
\* a login accepted.
FreshestCredentials ==
  /\ [](wire.by # None /\ wire.op \in AuthOps /\ token # None
          => /\ wire.token = token
             /\ wire.accountID = accountId
             /\ wire.tk = token
             /\ wire.accountid = accountId)
  /\ [][<<token, accountId, hdrTk, hdrAccountid>>' # <<token, accountId, hdrTk, hdrAccountid>>
          => \E t \in Tasks :
               /\ op[t] \in LoginOps /\ pc[t] = "got" /\ pc'[t] = "settle"
               /\ rsp[t].ok
               /\ <<token, accountId, hdrTk, hdrAccountid>>'
                    = <<rsp[t].token, rsp[t].accountID, rsp[t].token, rsp[t].accountID>>]_vars

\* After the scheduled re-login, a device operation retries a request with
\* the session: the retry is on the wire.
FreshestCredentialsWitness ==
  /\ ticks > 0
  /\ pc[TimerTask] = "idle"
  /\ wire.by \in Callers
  /\ wire.op \in AuthOps
  /\ attempt[wire.by] > 0
  /\ wire.token = token
  /\ wire.tk \in Tokens

\* This step writes token, accountId, the identity profile, the auth headers
\* or a field of the rate limiter (lastRequest or minuteStart is moved
\* forward, the counter changes).
WritesShared ==
  \/ sessVars' # sessVars
  \/ requestsThisMinute' # requestsThisMinute
  \/ sinceRequest' < sinceRequest
  \/ sinceMinute' < sinceMinute

\* t reads them in this step: it is in a pass of rateLimit or builds a request.
ReadsShared(t) ==
  Steps(t) /\ (pc[t] \in {"rl", "rlSpacing", "rlWindow"} \/ Attempts(t))

\* C26  Shared state only under the slot: a step that writes token,
\* accountId, the identity profile or the rate-limiter fields is a step of
\* the operation that holds the lock, inside its protected body, and so is
\* every step that reads them.
SharedStateUnderSlot ==
  [][/\ WritesShared => \E t \in Tasks : Steps(t) /\ lockHolder = t /\ pc[t] \in BodyPcs
     /\ \A t \in Tasks : ReadsShared(t) => lockHolder = t]_vars

\* A login has stored its session while another operation waits for the lock.
SharedStateUnderSlotWitness ==
  \E t, u \in Tasks :
    /\ op[t] \in LoginOps
    /\ pc[t] = "settle"
    /\ lockHolder = t
    /\ token # None
    /\ requestsThisMinute > 0
    /\ pc[u] = "queued"

\* A credential is missing: !this.email || !this.password.
CredentialsMissing == email = "" \/ password = ""

\* C27  Missing credentials fail fast: a login called with an empty email or
\* an empty password returns false in its first step, without a pass of
\* rateLimit and without a request, and leaves token, accountId, the auth
\* headers, the identity profile and the rate-limiter fields as they were.
MissingCredentialsFailFast ==
  /\ [](\A t \in Tasks :
          op[t] \in LoginOps /\ CredentialsMissing
            => pc[t] \in {"queued", "begin"} /\ reqs[t] = 0)
  /\ [][\A t \in Tasks :
          Steps(t) /\ pc[t] = "begin" /\ op[t] \in LoginOps /\ CredentialsMissing
            => /\ Returns(t)
               /\ returned'.value = "false"
               /\ UNCHANGED <<sessVars, rateVars, wire>>]_vars

\* A login of a client constructed with an empty email has returned false;
\* no request has been counted.
MissingCredentialsFailFastWitness ==
  /\ email = ""
  /\ returned.op \in LoginOps
  /\ returned.value = "false"
  /\ requestsThisMinute = 0
  /\ token = None

\* C28  Every operation terminates and frees the slot: if every network call
\* ends, every operation that was called ends, on whatever path, and then no
\* longer holds the lock; the holder of the lock is never waiting for it; and
\* every operation that waits for the lock gets it.
EveryOperationTerminates ==
  /\ \A t \in Callers : op[t] # None ~> (op[t] = None /\ lockHolder # t)
  /\ \A t \in Callers : pc[t] = "queued" ~> lockHolder = t
  /\ [](\A t \in Tasks :
          /\ lockHolder = t => pc[t] \in BodyPcs /\ \A i \in 1..Len(lockQueue) : lockQueue[i] # t
          /\ pc[t] = "idle" => op[t] = None /\ lockHolder # t)

\* An operation has ended by rejecting, out of its catch block, and the lock
\* it held is now held by the other caller's operation, which has a request
\* on the wire.
EveryOperationTerminatesWitness ==
  \E t, u \in Callers :
    /\ t # u
    /\ returned.by = u
    /\ returned.value = "thrown"
    /\ op[u] = None
    /\ lockHolder = t
    /\ pc[t] = "net"

\* C29  Bounded login traffic: one login makes at most 20 network requests,
\* and at most 4 as long as none of them was answered with 429.
BoundedLoginTraffic ==
  \A t \in Tasks :
    op[t] \in LoginOps => reqs[t] <= 20 /\ (~saw429 => reqs[t] <= 4)

\* The twentieth request of a login is on the wire: the fifth attempt with
\* the field 'email' under the fallback identity.
BoundedLoginTrafficWitness ==
  \E t \in Tasks :
    /\ op[t] \in LoginOps
    /\ pc[t] = "net"
    /\ reqs[t] = 20
    /\ ident[t] = 2 /\ field[t] = "email" /\ attempt[t] = 4

\* C30  Sticky fallback identity: clientType and User-Agent always belong to
\* the same profile; once they are those of the fallback profile no step
\* changes them, whether the login that switched them succeeds or fails; and
\* every request on the wire presents the profile the client holds.
StickyFallbackIdentity ==
  /\ [](<<clientType, userAgent>> \in {<<Android, AndroidUA>>, <<IOS, IOSUA>>})
  /\ [](wire.by # None
          => wire.clientType = clientType /\ wire.userAgent = userAgent)
  /\ [][clientType = IOS => clientType' = IOS /\ userAgent' = IOSUA]_vars

\* The login that switched to the fallback profile has failed, no login has
\* succeeded, and a later request presents the fallback profile.
StickyFallbackIdentityWitness ==
  /\ returned.op \in LoginOps
  /\ returned.value = "false"
  /\ token = None
  /\ wire.by # None
  /\ wire.clientType = IOS
  /\ wire.userAgent = IOSUA

====
